---- MODULE Spec2Model ----
(***************************************************************************)
(* The delayed, coalescing channel of src/src/channel.rs.                  *)
(*                                                                         *)
(* Threads: the producers "p1" and "p2" (one Sender handle each, "p2" is   *)
(* a clone of "p1"), the consumer "r" (the Receiver handle) and the        *)
(* scheduler "w" (worker_thread).  Shared state: the ready queue and the   *)
(* pending slot, each behind its own mutex, the Active Flag behind a third *)
(* mutex that is only ever held for one read or one write (so it is read   *)
(* and written atomically here), and one condition variable on which both  *)
(* the scheduler (with the pending-slot mutex) and recv (with the queue    *)
(* mutex) wait.                                                            *)
(*                                                                         *)
(* Time is a discrete clock `now`; Instant::now() reads it.  A step that   *)
(* needs a mutex is enabled only while the mutex is free, so a thread      *)
(* whose next step needs a held mutex is blocked on it.  Consecutive       *)
(* statements executed under one mutex whose effects no other thread can   *)
(* tell apart are one step.                                                *)
(*                                                                         *)
(* The one Condvar is used with two different mutexes.  std documents that *)
(* this may panic on some platforms; the futex and SRW-lock based builds   *)
(* (Linux, Windows, which this program targets) do not check it, and the   *)
(* model follows them: a notification wakes any waiter, whichever mutex it *)
(* waits with.                                                             *)
(***************************************************************************)
EXTENDS Integers, Sequences, FiniteSets, TLC

\* Bounds of the model.
Delay    == 1      \* the settle delay handed to channel(delay)
MaxTime  == 3      \* the clock stops here
MaxSends == 2      \* payloads accepted in all (send and send_immediate)

Producers == {"p1", "p2"}
Free      == "free"

\* Bounds of the model of Monitor::delay_send (src/src/monitor.rs).
StepMillis == 50   \* resolution of the millisecond clock
MaxMillis  == 400  \* the millisecond clock stops here
MaxSignals == 3    \* MayChangeIME signals sent by the listeners in all

\* l.elapsed().as_millis() > 150
DebounceMillis == 150

VARIABLES
    now,            \* the clock
    active,         \* Inner.active
    current_event,  \* Inner.current_event: <<>> (None) or <<event>>
    queue,          \* Inner.queue
    lockQ,          \* owner of the queue mutex
    lockCE,         \* owner of the current_event mutex
    wpc,            \* worker_thread: position
    sleep_duration, \* worker_thread: <<>> (None) or <<duration>>
    deadline,       \* worker_thread: end of the running wait_timeout
    hand,           \* worker_thread: the event taken out of the slot
    ppc,            \* producers: position ("none": handle not created yet)
    pafter,         \* producers: the running call started after a close
    simark,         \* producers: Len(sendOrder) when send_immediate cleared
    rpc,            \* consumer: position
    rafter,         \* consumer: the running call started after a close
    ret,            \* the call that returned in the last step, if any
    innerLive,      \* Inner has not been dropped
    nextId,         \* next payload
    sendOrder,      \* history: [data, t] of every slot write, in write order
    cleared,        \* history: payloads removed from the slot by send_immediate
    appended,       \* history: every push_back on the queue
    received        \* history: payloads returned by recv / try_recv

\* Monitor::delay_send and the two std::sync::mpsc channels around it
VARIABLES
    mnow,           \* the clock, in milliseconds
    mpc,            \* delay_send: position in the loop body
    last_time,      \* delay_send: <<>> (None) or <<[at, e]>>
    receiver,       \* signals sent by the listeners and not yet received
    nextSig,        \* next signal (signals are numbered in sending order)
    receipts,       \* history: receipts[i] is when signal i was received
    forwards        \* history: [e, at] of every delay_sender.send(e)

mon   == <<mnow, mpc, last_time, receiver, nextSig, receipts, forwards>>

chan  == <<active, current_event, queue>>
locks == <<lockQ, lockCE>>
wloc  == <<sleep_duration, hand>>
prod  == <<ppc, pafter, simark>>
hist  == <<nextId, sendOrder, cleared, appended, received>>
vars  == <<now, active, current_event, queue, lockQ, lockCE, wpc,
           sleep_duration, deadline, hand, ppc, pafter, simark, rpc, rafter,
           ret,
           innerLive, nextId, sendOrder, cleared, appended, received, mon>>

\* a return of operation op, called by who, with result kind (and payload
\* data); after: the call started when the Active Flag was already false
Return(who, op, kind, data, after) ==
    [who |-> who, op |-> op, kind |-> kind, data |-> data, after |-> after]
NoReturn == Return("-", "-", "-", 0, FALSE)

Ids == 1..MaxSends

\* struct Event { data, scheduled_time }
Event(d, t) == [data |-> d, scheduled_time |-> t]

Range(s) == {s[i] : i \in 1..Len(s)}

\* history record of a push_back at time t: the payload, who pushed it and
\* whether its scheduled_time had come
Appended(e, t, by) ==
    [data |-> e.data, by |-> by, due |-> e.scheduled_time <= t]

----------------------------------------------------------------------------
\* The condition variable.  A thread waits on it exactly when it is at one
\* of these positions.
WWaiting(pc) == pc \in {"w_timed", "w_indef"}
RWaiting(pc) == pc = "r_waiting"

WakeW(pc) == IF WWaiting(pc) THEN "w_woken" ELSE pc
WakeR(pc) == IF RWaiting(pc) THEN "r_woken" ELSE pc

\* Condvar::notify_one: wakes one of the waiting threads, whichever; the
\* result is the set of possible <<wpc, rpc>> afterwards.
notify_one(w, r) ==
    LET viaW == IF WWaiting(w) THEN {<<WakeW(w), r>>} ELSE {}
        viaR == IF RWaiting(r) THEN {<<w, WakeR(r)>>} ELSE {}
    IN  IF viaW \cup viaR = {} THEN {<<w, r>>} ELSE viaW \cup viaR

\* Condvar::notify_all
notify_all(w, r) == <<WakeW(w), WakeR(r)>>

\* the deadline is only meaningful during a wait_timeout
KeepDeadline(w) == IF w = "w_timed" THEN deadline ELSE 0

----------------------------------------------------------------------------
\* Monitor::run creates the channels and spawns delay_send; last_time = None
MonitorInit ==
    /\ mnow = 0
    /\ mpc = "m_check"
    /\ last_time = <<>>
    /\ receiver = <<>>
    /\ nextSig = 1
    /\ receipts = <<>>
    /\ forwards = <<>>

Init ==
    /\ now = 0
    /\ active = TRUE
    /\ current_event = <<>>
    /\ queue = <<>>
    /\ lockQ = Free
    /\ lockCE = Free
    /\ wpc = "w_compute"
    /\ sleep_duration = <<>>
    /\ deadline = 0
    /\ hand = <<>>
    /\ ppc = [p \in Producers |-> IF p = "p1" THEN "idle" ELSE "none"]
    /\ pafter = [p \in Producers |-> FALSE]
    /\ simark = [p \in Producers |-> 0]
    /\ rpc = "idle"
    /\ rafter = FALSE
    /\ ret = NoReturn
    /\ innerLive = TRUE
    /\ nextId = 1
    /\ sendOrder = <<>>
    /\ cleared = {}
    /\ appended = <<>>
    /\ received = <<>>
    /\ MonitorInit

----------------------------------------------------------------------------
\* Sender::send

\* producer calls under way that may still accept a payload; a call starts
\* only while a payload is left for it (MaxSends)
InFlight ==
    Cardinality({p \in Producers :
                   ppc[p] \in {"s_check", "s_write", "si_check", "si_clear",
                               "si_push"}})

\* (mutant: the delay is not added)
ScheduledTimeNoDelay(t) == t

\* scheduled_time = Instant::now() + self.inner.delay
ScheduledTime(t) == t + Delay

\* (mutant: the Active Flag is not checked)
ProducerAlwaysProceeds(a) == TRUE

\* the guard of send and send_immediate: the call goes on iff this holds
ProducerMayProceed(a) == a

\* let mut current_event = self.inner.current_event.lock()
SendLock(p) ==
    /\ ppc[p] = "idle"
    /\ nextId + InFlight <= MaxSends
    /\ lockCE = Free
    /\ lockCE' = p
    /\ ppc' = [ppc EXCEPT ![p] = "s_check"]
    /\ pafter' = [pafter EXCEPT ![p] = ~active]
    /\ ret' = NoReturn
    /\ UNCHANGED mon
    /\ UNCHANGED <<simark, now, chan, lockQ, wpc, wloc, deadline, rpc, rafter,
                   innerLive, hist>>

\* if !*self.inner.active.lock() { bail!("Channel is closed") }
SendCheck(p) ==
    /\ ppc[p] = "s_check"
    /\ IF ProducerMayProceed(active)
         THEN /\ ppc' = [ppc EXCEPT ![p] = "s_write"]
              /\ ret' = NoReturn
              /\ UNCHANGED <<lockCE, pafter>>
         ELSE /\ ppc' = [ppc EXCEPT ![p] = "idle"]
              /\ ret' = Return(p, "send", "closed", 0, pafter[p])
              /\ pafter' = [pafter EXCEPT ![p] = FALSE]
              /\ lockCE' = Free
    /\ UNCHANGED mon
    /\ UNCHANGED <<simark, now, chan, lockQ, wpc, wloc, deadline, rpc, rafter,
                   innerLive, hist>>

\* *current_event = Some(Event { data, scheduled_time }); notify_one; Ok(())
SendWrite(p) ==
    /\ ppc[p] = "s_write"
    /\ current_event' = <<Event(nextId, ScheduledTime(now))>>
    /\ sendOrder' = Append(sendOrder, [data |-> nextId, t |-> now])
    /\ nextId' = nextId + 1
    /\ \E n \in notify_one(wpc, rpc) : wpc' = n[1] /\ rpc' = n[2]
    /\ deadline' = KeepDeadline(wpc')
    /\ lockCE' = Free
    /\ ppc' = [ppc EXCEPT ![p] = "idle"]
    /\ ret' = Return(p, "send", "ok", nextId, pafter[p])
    /\ pafter' = [pafter EXCEPT ![p] = FALSE]
    /\ UNCHANGED mon
    /\ UNCHANGED <<simark, now, active, queue, lockQ, wloc, rafter, innerLive,
                   cleared, appended, received>>

----------------------------------------------------------------------------
\* Sender::send_immediate

\* (mutant: the slot is not cleared)
KeepSlot(slot) == slot

\* *self.inner.current_event.lock() = None
ClearSlot(slot) == <<>>

\* (mutant: push at the front)
push_front(q, e) == <<e>> \o q

\* VecDeque::push_back
push_back(q, e) == Append(q, e)

\* let mut queue = self.inner.queue.lock()
SendImmLock(p) ==
    /\ ppc[p] = "idle"
    /\ nextId + InFlight <= MaxSends
    /\ lockQ = Free
    /\ lockQ' = p
    /\ ppc' = [ppc EXCEPT ![p] = "si_check"]
    /\ pafter' = [pafter EXCEPT ![p] = ~active]
    /\ ret' = NoReturn
    /\ UNCHANGED mon
    /\ UNCHANGED <<simark, now, chan, lockCE, wpc, wloc, deadline, rpc, rafter,
                   innerLive, hist>>

\* if !*self.inner.active.lock() { bail!("Channel is closed") }
SendImmCheck(p) ==
    /\ ppc[p] = "si_check"
    /\ IF ProducerMayProceed(active)
         THEN /\ ppc' = [ppc EXCEPT ![p] = "si_clear"]
              /\ ret' = NoReturn
              /\ UNCHANGED <<lockQ, pafter>>
         ELSE /\ ppc' = [ppc EXCEPT ![p] = "idle"]
              /\ ret' = Return(p, "send_immediate", "closed", 0, pafter[p])
              /\ pafter' = [pafter EXCEPT ![p] = FALSE]
              /\ lockQ' = Free
    /\ UNCHANGED mon
    /\ UNCHANGED <<simark, now, chan, lockCE, wpc, wloc, deadline, rpc, rafter,
                   innerLive, hist>>

\* *self.inner.current_event.lock() = None, the queue mutex still held
SendImmClear(p) ==
    /\ ppc[p] = "si_clear"
    /\ lockCE = Free
    /\ current_event' = ClearSlot(current_event)
    /\ cleared' = cleared \cup {e.data : e \in Range(current_event)}
    /\ simark' = [simark EXCEPT ![p] = Len(sendOrder)]
    /\ ppc' = [ppc EXCEPT ![p] = "si_push"]
    /\ ret' = NoReturn
    /\ UNCHANGED mon
    /\ UNCHANGED <<now, active, queue, locks, wpc, wloc, deadline, pafter,
                   rpc, rafter, innerLive, nextId, sendOrder, appended,
                   received>>

\* queue.push_back(Event { data, scheduled_time: now }); notify_one; Ok(())
SendImmPush(p) ==
    /\ ppc[p] = "si_push"
    /\ queue' = push_back(queue, Event(nextId, now))
    /\ appended' = Append(appended, Appended(Event(nextId, now), now,
                                              "send_immediate"))
    /\ nextId' = nextId + 1
    /\ \E n \in notify_one(wpc, rpc) : wpc' = n[1] /\ rpc' = n[2]
    /\ deadline' = KeepDeadline(wpc')
    /\ lockQ' = Free
    /\ ppc' = [ppc EXCEPT ![p] = "idle"]
    /\ ret' = Return(p, "send_immediate", "ok", nextId, pafter[p])
    /\ pafter' = [pafter EXCEPT ![p] = FALSE]
    /\ simark' = [simark EXCEPT ![p] = 0]
    /\ UNCHANGED mon
    /\ UNCHANGED <<now, active, current_event, lockCE, wloc, rafter,
                   innerLive, sendOrder, cleared, received>>

----------------------------------------------------------------------------
\* Receiver::recv and Receiver::try_recv

\* (mutant: the Active Flag is looked at before the queue)
RecvDecisionFlagFirst(q, a) ==
    IF ~a THEN "closed" ELSE IF q # <<>> THEN "ok" ELSE "wait"

\* the outcome of one pass of recv's loop with the queue mutex held:
\* "ok" (queue not empty: pop), "closed" (bail) or "wait" (condvar.wait)
RecvDecision(q, a) ==
    IF q # <<>> THEN "ok" ELSE IF ~a THEN "closed" ELSE "wait"

\* (mutant: the two failures are swapped)
TryRecvDecisionSwapped(q, a) ==
    IF q # <<>> THEN "ok" ELSE IF ~a THEN "empty" ELSE "closed"

\* the outcome of try_recv with the queue mutex held
TryRecvDecision(q, a) ==
    IF q # <<>> THEN "ok" ELSE IF ~a THEN "closed" ELSE "empty"

\* VecDeque::pop_front: <<the event, the rest>>
pop_front(q) == <<Head(q), Tail(q)>>

\* let mut queue = self.inner.queue.lock()
RecvLock ==
    /\ rpc = "idle"
    /\ lockQ = Free
    /\ lockQ' = "r"
    /\ rpc' = "r_loop"
    /\ rafter' = ~active
    /\ ret' = NoReturn
    /\ UNCHANGED mon
    /\ UNCHANGED <<now, chan, lockCE, wpc, wloc, deadline, prod, innerLive,
                   hist>>

\* while queue.is_empty() { if !active { bail } ... } queue.pop_front()
RecvLoop ==
    /\ rpc = "r_loop"
    /\ LET d == RecvDecision(queue, active) IN
         \/ /\ d = "ok"
            /\ queue' = pop_front(queue)[2]
            /\ ret' = Return("r", "recv", "ok", pop_front(queue)[1].data,
                             rafter)
            /\ received' = Append(received, pop_front(queue)[1].data)
            /\ lockQ' = Free
            /\ rpc' = "idle"
            /\ rafter' = FALSE
         \/ /\ d = "closed"
            /\ ret' = Return("r", "recv", "closed", 0, rafter)
            /\ lockQ' = Free
            /\ rpc' = "idle"
            /\ rafter' = FALSE
            /\ UNCHANGED <<queue, received>>
         \/ /\ d = "wait"
            /\ rpc' = "r_prewait"
            /\ ret' = NoReturn
            /\ UNCHANGED <<queue, received, rafter, lockQ>>
    /\ UNCHANGED mon
    /\ UNCHANGED <<now, active, current_event, lockCE, wpc, wloc, deadline,
                   prod, innerLive, nextId, sendOrder, cleared, appended>>

\* queue = self.inner.condvar.wait(queue): releases the queue mutex and waits
RecvWait ==
    /\ rpc = "r_prewait"
    /\ lockQ' = Free
    /\ rpc' = "r_waiting"
    /\ ret' = NoReturn
    /\ UNCHANGED mon
    /\ UNCHANGED <<now, chan, lockCE, wpc, wloc, deadline, prod, rafter,
                   innerLive, hist>>

\* condvar.wait returns: the woken consumer takes the queue mutex again
RecvReacquire ==
    /\ rpc = "r_woken"
    /\ lockQ = Free
    /\ lockQ' = "r"
    /\ rpc' = "r_loop"
    /\ ret' = NoReturn
    /\ UNCHANGED mon
    /\ UNCHANGED <<now, chan, lockCE, wpc, wloc, deadline, prod, rafter,
                   innerLive, hist>>

\* let mut queue = self.inner.queue.lock()
TryRecvLock ==
    /\ rpc = "idle"
    /\ lockQ = Free
    /\ lockQ' = "r"
    /\ rpc' = "t_body"
    /\ rafter' = ~active
    /\ ret' = NoReturn
    /\ UNCHANGED mon
    /\ UNCHANGED <<now, chan, lockCE, wpc, wloc, deadline, prod, innerLive,
                   hist>>

\* if let Some(event) = queue.pop_front() {..} else if !active {..} else {..}
TryRecvBody ==
    /\ rpc = "t_body"
    /\ LET d == TryRecvDecision(queue, active) IN
         \/ /\ d = "ok"
            /\ queue' = pop_front(queue)[2]
            /\ ret' = Return("r", "try_recv", "ok", pop_front(queue)[1].data,
                             rafter)
            /\ received' = Append(received, pop_front(queue)[1].data)
         \/ /\ d \in {"closed", "empty"}
            /\ ret' = Return("r", "try_recv", d, 0, rafter)
            /\ UNCHANGED <<queue, received>>
    /\ lockQ' = Free
    /\ rpc' = "idle"
    /\ rafter' = FALSE
    /\ UNCHANGED mon
    /\ UNCHANGED <<now, active, current_event, lockCE, wpc, wloc, deadline,
                   prod, innerLive, nextId, sendOrder, cleared, appended>>

----------------------------------------------------------------------------
\* worker_thread

\* the sleep_duration block: None (<<>>) when the slot is empty, else the time
\* left until scheduled_time, zero when it has passed
SleepDuration(slot, t) ==
    IF slot = <<>> THEN <<>>
    ELSE IF slot[1].scheduled_time > t THEN <<slot[1].scheduled_time - t>>
         ELSE <<0>>

\* (mutant: every event found in the slot is promoted)
IsDueAlways(e, t) == TRUE

\* if event.scheduled_time <= Instant::now()
IsDue(e, t) == e.scheduled_time <= t

\* let sleep_duration = { let current_event = ...lock(); ... };
WCompute ==
    /\ wpc = "w_compute"
    /\ lockCE = Free
    /\ sleep_duration' = SleepDuration(current_event, now)
    /\ wpc' = "w_relock"
    /\ ret' = NoReturn
    /\ UNCHANGED mon
    /\ UNCHANGED <<now, chan, locks, deadline, hand, prod, rpc, rafter,
                   innerLive, hist>>

\* match sleep_duration: lock the slot again, then `continue` (slot cleared),
\* wait_timeout (Some) or wait (None); a wait releases the slot mutex
WRelock ==
    /\ wpc = "w_relock"
    /\ lockCE = Free
    /\ IF sleep_duration # <<>>
         THEN IF current_event = <<>>
                THEN wpc' = "w_compute" /\ deadline' = 0
                ELSE wpc' = "w_timed" /\ deadline' = now + sleep_duration[1]
         ELSE wpc' = "w_indef" /\ deadline' = 0
    /\ sleep_duration' = <<>>
    /\ ret' = NoReturn
    /\ UNCHANGED mon
    /\ UNCHANGED <<now, chan, locks, hand, prod, rpc, rafter, innerLive,
                   hist>>

\* wait_timeout runs out
WTimeout ==
    /\ wpc = "w_timed"
    /\ now >= deadline
    /\ wpc' = "w_woken"
    /\ deadline' = 0
    /\ ret' = NoReturn
    /\ UNCHANGED mon
    /\ UNCHANGED <<now, chan, locks, wloc, prod, rpc, rafter, innerLive,
                   hist>>

\* wait / wait_timeout returns: the woken scheduler takes the slot mutex again
WReacquire ==
    /\ wpc = "w_woken"
    /\ lockCE = Free
    /\ lockCE' = "w"
    /\ wpc' = "w_active"
    /\ ret' = NoReturn
    /\ UNCHANGED mon
    /\ UNCHANGED <<now, chan, lockQ, wloc, deadline, prod, rpc, rafter,
                   innerLive, hist>>

\* (mutant: the loop is never left)
WorkerNeverBreaks(a) == FALSE

\* the guard of the break: !*inner.active.lock().unwrap()
WorkerBreaks(a) == ~a

\* if !*inner.active.lock().unwrap() { break; }
WCheckActive ==
    /\ wpc = "w_active"
    /\ IF WorkerBreaks(active)
         THEN wpc' = "w_done" /\ lockCE' = Free
         ELSE wpc' = "w_take" /\ UNCHANGED lockCE
    /\ ret' = NoReturn
    /\ UNCHANGED mon
    /\ UNCHANGED <<now, chan, lockQ, wloc, deadline, prod, rpc, rafter,
                   innerLive, hist>>

\* (mutant: take leaves the Event in the slot)
TakeLeavesSlot(slot) == slot

\* Option::take: what it leaves in the slot
TakeSlot(slot) == <<>>

\* if let Some(event) = current_event.take() { if due {..} else { put back } }
WTake ==
    /\ wpc = "w_take"
    /\ IF current_event # <<>> /\ IsDue(current_event[1], now)
         THEN /\ hand' = current_event
              /\ current_event' = TakeSlot(current_event)
              /\ wpc' = "w_push"
              /\ UNCHANGED lockCE
         ELSE /\ wpc' = "w_compute"
              /\ lockCE' = Free
              /\ UNCHANGED <<hand, current_event>>
    /\ ret' = NoReturn
    /\ UNCHANGED mon
    /\ UNCHANGED <<now, active, queue, lockQ, sleep_duration, deadline, prod,
                   rpc, rafter, innerLive, hist>>

\* let mut queue = inner.queue.lock(); queue.push_back(event); notify_one
\* (the slot mutex is held until the iteration ends)
WPush ==
    /\ wpc = "w_push"
    /\ lockQ = Free
    /\ queue' = push_back(queue, hand[1])
    /\ appended' = Append(appended, Appended(hand[1], now, "worker"))
    /\ \E n \in notify_one(wpc, rpc) : rpc' = n[2]
    /\ hand' = <<>>
    /\ lockCE' = Free
    /\ wpc' = "w_compute"
    /\ ret' = NoReturn
    /\ UNCHANGED mon
    /\ UNCHANGED <<now, active, current_event, lockQ, sleep_duration,
                   deadline, prod, rafter, innerLive, nextId, sendOrder,
                   cleared, received>>

\* Condvar::wait and wait_timeout may return without a notification
SpuriousWake ==
    /\ \/ WWaiting(wpc) /\ wpc' = WakeW(wpc) /\ UNCHANGED rpc
       \/ RWaiting(rpc) /\ rpc' = WakeR(rpc) /\ UNCHANGED wpc
    /\ deadline' = KeepDeadline(wpc')
    /\ ret' = NoReturn
    /\ UNCHANGED mon
    /\ UNCHANGED <<now, chan, locks, wloc, prod, rafter, innerLive, hist>>

----------------------------------------------------------------------------
\* Clone and Drop

\* the value Drop stores in the Active Flag
ClosedFlag == FALSE

\* impl Clone for Sender
CloneSender(p, q) ==
    /\ ppc[p] = "idle"
    /\ ppc[q] = "none"
    /\ ppc' = [ppc EXCEPT ![q] = "idle"]
    /\ ret' = NoReturn
    /\ UNCHANGED mon
    /\ UNCHANGED <<simark, now, chan, locks, wpc, wloc, deadline, pafter, rpc,
                   rafter, innerLive, hist>>

\* impl Drop for Sender: *self.inner.active.lock().unwrap() = false
DropSender(p) ==
    /\ ppc[p] = "idle"
    /\ active' = ClosedFlag
    /\ ppc' = [ppc EXCEPT ![p] = "d_notify"]
    /\ ret' = NoReturn
    /\ UNCHANGED mon
    /\ UNCHANGED <<simark, now, current_event, queue, locks, wpc, wloc,
                   deadline, pafter, rpc, rafter, innerLive, hist>>

\* impl Drop for Sender: self.inner.condvar.notify_all()
DropSenderNotify(p) ==
    /\ ppc[p] = "d_notify"
    /\ wpc' = notify_all(wpc, rpc)[1]
    /\ rpc' = notify_all(wpc, rpc)[2]
    /\ deadline' = KeepDeadline(wpc')
    /\ ppc' = [ppc EXCEPT ![p] = "dropped"]
    /\ ret' = NoReturn
    /\ UNCHANGED mon
    /\ UNCHANGED <<simark, now, chan, locks, wloc, pafter, rafter, innerLive,
                   hist>>

\* impl Drop for Receiver: *self.inner.active.lock().unwrap() = false
DropReceiver ==
    /\ rpc = "idle"
    /\ active' = ClosedFlag
    /\ rpc' = "d_notify"
    /\ ret' = NoReturn
    /\ UNCHANGED mon
    /\ UNCHANGED <<now, current_event, queue, locks, wpc, wloc, deadline,
                   prod, rafter, innerLive, hist>>

\* impl Drop for Receiver: self.inner.condvar.notify_all()
DropReceiverNotify ==
    /\ rpc = "d_notify"
    /\ wpc' = notify_all(wpc, rpc)[1]
    /\ rpc' = "dropped"
    /\ deadline' = KeepDeadline(wpc')
    /\ ret' = NoReturn
    /\ UNCHANGED mon
    /\ UNCHANGED <<now, chan, locks, wloc, prod, rafter, innerLive, hist>>

\* impl Drop for Inner: runs when the last Arc goes, that is once every
\* handle is dropped and worker_thread has returned
DropInner ==
    /\ innerLive
    /\ wpc = "w_done"
    /\ rpc = "dropped"
    /\ \A p \in Producers : ppc[p] \in {"none", "dropped"}
    /\ active' = ClosedFlag
    /\ innerLive' = FALSE
    /\ ret' = NoReturn
    /\ UNCHANGED mon
    /\ UNCHANGED <<now, current_event, queue, locks, wpc, wloc, deadline,
                   prod, rpc, rafter, hist>>

----------------------------------------------------------------------------
\* The clock

Tick ==
    /\ now < MaxTime
    /\ now' = now + 1
    /\ ret' = NoReturn
    /\ UNCHANGED mon
    /\ UNCHANGED <<chan, locks, wpc, wloc, deadline, prod, rpc, rafter,
                   innerLive, hist>>

Next ==
    \/ \E p \in Producers : SendLock(p)
    \/ \E p \in Producers : SendCheck(p)
    \/ \E p \in Producers : SendWrite(p)
    \/ \E p \in Producers : SendImmLock(p)
    \/ \E p \in Producers : SendImmCheck(p)
    \/ \E p \in Producers : SendImmClear(p)
    \/ \E p \in Producers : SendImmPush(p)
    \/ RecvLock
    \/ RecvLoop
    \/ RecvWait
    \/ RecvReacquire
    \/ TryRecvLock
    \/ TryRecvBody
    \/ WCompute
    \/ WRelock
    \/ WTimeout
    \/ WReacquire
    \/ WCheckActive
    \/ WTake
    \/ WPush
    \/ SpuriousWake
    \/ \E p, q \in Producers : CloneSender(p, q)
    \/ \E p \in Producers : DropSender(p)
    \/ \E p \in Producers : DropSenderNotify(p)
    \/ DropReceiver
    \/ DropReceiverNotify
    \/ DropInner
    \/ Tick

Spec == Init /\ [][Next]_vars

----------------------------------------------------------------------------
\* Prompt threads: the same program when no thread is ever delayed by the
\* operating system, so that time passes only while every thread is between
\* calls, waiting on the condition variable (a wait_timeout not yet run out),
\* blocked for good, or finished.

Busy ==
    \/ wpc \notin {"w_timed", "w_indef", "w_done"}
    \/ wpc = "w_timed" /\ now >= deadline
    \/ rpc \notin {"idle", "r_waiting", "dropped"}
    \/ \E p \in Producers : ppc[p] \notin {"idle", "none", "dropped"}

PromptTick == ~Busy /\ Tick

Threads ==
    \/ \E p \in Producers : SendLock(p)
    \/ \E p \in Producers : SendCheck(p)
    \/ \E p \in Producers : SendWrite(p)
    \/ \E p \in Producers : SendImmLock(p)
    \/ \E p \in Producers : SendImmCheck(p)
    \/ \E p \in Producers : SendImmClear(p)
    \/ \E p \in Producers : SendImmPush(p)
    \/ RecvLock
    \/ RecvLoop
    \/ RecvWait
    \/ RecvReacquire
    \/ TryRecvLock
    \/ TryRecvBody
    \/ WCompute
    \/ WRelock
    \/ WTimeout
    \/ WReacquire
    \/ WCheckActive
    \/ WTake
    \/ WPush
    \/ SpuriousWake
    \/ \E p, q \in Producers : CloneSender(p, q)
    \/ \E p \in Producers : DropSender(p)
    \/ \E p \in Producers : DropSenderNotify(p)
    \/ DropReceiver
    \/ DropReceiverNotify
    \/ DropInner

PromptNext == Threads \/ PromptTick

PromptSpec == Init /\ [][PromptNext]_vars

----------------------------------------------------------------------------
\* Fair scheduling: a thread that is inside a call, or the scheduler, goes on
\* (a mutex it needs is granted if it is free again and again), the clock
\* advances, and the consumer calls recv again and again.  Nothing makes a
\* producer start a call or a wait return without a notification.

WorkerSteps ==
    WCompute \/ WRelock \/ WTimeout \/ WReacquire \/ WCheckActive \/ WTake
        \/ WPush

ConsumerSteps ==
    RecvLoop \/ RecvWait \/ RecvReacquire \/ TryRecvBody
        \/ DropReceiverNotify

ProducerSteps(p) ==
    SendCheck(p) \/ SendWrite(p) \/ SendImmCheck(p) \/ SendImmClear(p)
        \/ SendImmPush(p) \/ DropSenderNotify(p)

Fairness ==
    /\ WF_vars(Tick)
    /\ SF_vars(WorkerSteps)
    /\ SF_vars(ConsumerSteps)
    /\ SF_vars(RecvLock)
    /\ \A p \in Producers : SF_vars(ProducerSteps(p))

FairSpec == Init /\ [][Next]_vars /\ Fairness

----------------------------------------------------------------------------
\* Monitor::delay_send: the polling debouncer of src/src/monitor.rs.  It
\* does not use the channel above but two std::sync::mpsc channels, so the
\* two parts of the module leave each other's variables alone.  The loop
\* never blocks; one pass through its body takes less than the resolution
\* of the clock, so the clock advances between two passes.

\* everything of the delayed channel
delayed_channel ==
    <<now, chan, locks, wpc, wloc, deadline, prod, rpc, rafter, ret,
      innerLive, hist>>

\* Instant::elapsed().as_millis(), for an Instant l read at time t
Elapsed(l, t) == t - l

\* (mutant: the comparison is not strict)
ElapsedAtLeast(ms) == ms >= DebounceMillis

\* l.elapsed().as_millis() > 150
ElapsedEnough(ms) == ms > DebounceMillis

\* listen_keyboard / listen_window: sender.send(MayChangeIME)
MSignal ==
    /\ nextSig <= MaxSignals
    /\ receiver' = Append(receiver, nextSig)
    /\ nextSig' = nextSig + 1
    /\ UNCHANGED <<mnow, mpc, last_time, receipts, forwards>>
    /\ UNCHANGED delayed_channel

\* if let Some((l, _)) = last_time && l.elapsed().as_millis() > 150
\*    && let Some((_, e)) = last_time.take() { let _ = delay_sender.send(e); }
MCheck ==
    /\ mpc = "m_check"
    /\ IF last_time # <<>> /\ ElapsedEnough(Elapsed(last_time[1].at, mnow))
         THEN /\ forwards' = Append(forwards,
                                    [e |-> last_time[1].e, at |-> mnow])
              /\ last_time' = <<>>
         ELSE UNCHANGED <<forwards, last_time>>
    /\ mpc' = "m_try_recv"
    /\ UNCHANGED <<mnow, receiver, nextSig, receipts>>
    /\ UNCHANGED delayed_channel

\* if let Ok(e) = receiver.try_recv() { last_time = Some((Instant::now(), e)) }
MTryRecv ==
    /\ mpc = "m_try_recv"
    /\ IF receiver # <<>>
         THEN /\ last_time' = <<[at |-> mnow, e |-> Head(receiver)]>>
              /\ receiver' = Tail(receiver)
              /\ receipts' = Append(receipts, mnow)
         ELSE UNCHANGED <<last_time, receiver, receipts>>
    /\ mpc' = "m_check"
    /\ UNCHANGED <<mnow, nextSig, forwards>>
    /\ UNCHANGED delayed_channel

\* the clock, between two passes of the loop
MTick ==
    /\ mpc = "m_check"
    /\ mnow + StepMillis <= MaxMillis
    /\ mnow' = mnow + StepMillis
    /\ UNCHANGED <<mpc, last_time, receiver, nextSig, receipts, forwards>>
    /\ UNCHANGED delayed_channel

MonitorNext ==
    \/ MSignal
    \/ MCheck
    \/ MTryRecv
    \/ MTick

MonitorSpec == Init /\ [][MonitorNext]_vars

----------------------------------------------------------------------------
\* What the histories say

AppendedData == {appended[i].data : i \in 1..Len(appended)}
ReceivedData == Range(received)
SlotData     == {e.data : e \in Range(current_event)}
HandData     == {e.data : e \in Range(hand)}

\* the clock read by the send that wrote payload d to the slot
SendTimeOf(d) ==
    sendOrder[CHOOSE i \in 1..Len(sendOrder) : sendOrder[i].data = d].t

\* sends i and i+1 (in write order) belong to one burst
SameBurst(i) == sendOrder[i + 1].t < sendOrder[i].t + Delay

\* send i+1 came after a quiet period longer than the delay
QuietAfter(i) == sendOrder[i + 1].t > sendOrder[i].t + Delay

InSendImmediate(p) == ppc[p] \in {"si_check", "si_clear", "si_push"}
InProducerCall(p)  == ppc[p] \in {"s_check", "s_write"} \/ InSendImmediate(p)
InRecv             == rpc \in {"r_loop", "r_prewait", "r_waiting", "r_woken"}

----------------------------------------------------------------------------
\* C1 - Coalescing: of two slot writes by send less than Delay apart, the
\* earlier payload is never appended to the ready queue and never returned
\* by recv / try_recv; only the last payload of a burst can be observed.
C1_Coalescing ==
    \A i \in 1..(Len(sendOrder) - 1) :
        SameBurst(i) =>
            sendOrder[i].data \notin AppendedData \cup ReceivedData

\* a burst of two sends whose last payload has been returned
C1_Witness ==
    \E i \in 1..(Len(sendOrder) - 1) :
        /\ SameBurst(i)
        /\ sendOrder[i + 1].data \in ReceivedData

\* C2 - One delivery per quiet period: on an open channel used through send
\* only, a payload followed by a quiet period longer than Delay is the last
\* of its burst and has been promoted by the time the next burst starts, so
\* that recv returns the last payload of every burst.
C2_OnePerQuietPeriod ==
    (/\ active
     /\ cleared = {}
     /\ \A p \in Producers : ~InSendImmediate(p)
     /\ \A i \in 1..Len(appended) : appended[i].by = "worker")
    => \A i \in 1..(Len(sendOrder) - 1) :
           QuietAfter(i) => sendOrder[i].data \in AppendedData

\* C3 - Minimum settle delay: an Event written by send at time t carries
\* scheduled_time = t + Delay (in the slot, in the scheduler's hand and in
\* the queue), and nothing is appended to the ready queue before its
\* scheduled_time: the scheduler never appends it before t + Delay.
C3_MinimumSettleDelay ==
    /\ \A e \in Range(current_event) \cup Range(hand) :
           e.scheduled_time = SendTimeOf(e.data) + Delay
    /\ \A i \in 1..Len(queue) :
           appended[Len(appended) - Len(queue) + i].by = "worker" =>
               queue[i].scheduled_time = SendTimeOf(queue[i].data) + Delay
    /\ \A i \in 1..Len(appended) : appended[i].due

\* the scheduler has promoted a payload that overwrote an earlier one (it
\* was woken for, or was sleeping on, the overwritten Event)
C3_Witness ==
    /\ Len(sendOrder) >= 2
    /\ \E i \in 1..Len(appended) :
           /\ appended[i].by = "worker"
           /\ appended[i].data = sendOrder[2].data
           /\ appended[i].due

\* C4 - Delivery liveness of send: an Event in the pending slot (due within
\* the clock's range) is eventually returned by recv, unless the channel is
\* closed or a later send / send_immediate supersedes it.
C4_Pending(d) ==
    /\ current_event # <<>>
    /\ current_event[1].data = d
    /\ current_event[1].scheduled_time <= MaxTime

C4_Superseded(d) ==
    \/ nextId > d + 1
    \/ d \in cleared
    \/ \E p \in Producers : InProducerCall(p)

C4_SendIsDelivered ==
    \A d \in Ids :
        C4_Pending(d) ~> (d \in ReceivedData \/ ~active \/ C4_Superseded(d))

\* C5 (as claimed) - when send_immediate(p) returns Ok, p is at the tail of
\* the ready queue, the pending slot is empty, and no Event it removed from
\* the slot has been appended to the queue or returned.
C5_SendImmediateOriginal ==
    (ret.op = "send_immediate" /\ ret.kind = "ok") =>
        /\ queue # <<>>
        /\ queue[Len(queue)].data = ret.data
        /\ current_event = <<>>
        /\ cleared \cap (AppendedData \cup ReceivedData) = {}

\* C5 (amended) - when send_immediate(p) returns Ok, p is at the tail of the
\* ready queue, eligible at once; the pending slot is empty or holds an Event
\* that a concurrent send wrote after send_immediate cleared the slot; and an
\* Event that send_immediate removed from the slot is nowhere any more: not
\* in the slot, not in the scheduler's hand, never appended, never returned.
C5_AtReturn ==
    (ret.op = "send_immediate" /\ ret.kind = "ok") =>
        /\ queue # <<>>
        /\ queue[Len(queue)] = Event(ret.data, now)
        /\ appended[Len(appended)] =
               [data |-> ret.data, by |-> "send_immediate", due |-> TRUE]

C5_ClearedIsGone ==
    cleared \cap (SlotData \cup HandData \cup AppendedData \cup ReceivedData)
        = {}

C5_SlotAtReturn ==
    \A p \in Producers :
        (ppc[p] = "si_push" /\ ppc'[p] = "idle") =>
            \/ current_event' = <<>>
            \/ \E i \in (simark[p] + 1)..Len(sendOrder') :
                   sendOrder'[i].data = current_event'[1].data

C5_SendImmediate ==
    /\ [](C5_AtReturn /\ C5_ClearedIsGone)
    /\ [][C5_SlotAtReturn]_vars

\* send_immediate has returned Ok after removing a pending Event
C5_Witness ==
    /\ ret.op = "send_immediate"
    /\ ret.kind = "ok"
    /\ cleared # {}
    /\ current_event = <<>>

\* C6 - FIFO delivery: the payloads returned by recv / try_recv are a prefix
\* of the payloads appended to the ready queue, in append order, and the
\* queue holds exactly the appended Events not yet returned, in order.
C6_FIFO ==
    /\ Len(received) + Len(queue) = Len(appended)
    /\ \A i \in 1..Len(received) : received[i] = appended[i].data
    /\ \A i \in 1..Len(queue) :
           queue[i].data = appended[Len(received) + i].data

\* two payloads were in the queue together and both have been returned
C6_Witness ==
    /\ Len(received) = 2
    /\ ret.kind = "ok"
    /\ ret.who = "r"

\* C7 (as claimed) - every send, send_immediate, recv and try_recv call that
\* starts after the close fails with ChannelClosed.
C7_ClosedOriginal == ret.after => ret.kind = "closed"

\* C7 (amended) - once false the Active Flag stays false; a handle release on
\* a closed channel leaves the flag, the pending slot and the ready queue as
\* they are; every send and send_immediate call that starts after the close
\* fails with ChannelClosed; a recv or try_recv call that starts after the
\* close fails with ChannelClosed unless the ready queue is not empty, in
\* which case it returns the oldest queued payload.
C7_CallsAfterClose ==
    ret.after =>
        \/ ret.kind = "closed"
        \/ ret.op \in {"recv", "try_recv"} /\ ret.kind = "ok"

C7_Release ==
    \/ \E p \in Producers : ppc[p] = "idle" /\ ppc'[p] = "d_notify"
    \/ rpc = "idle" /\ rpc' = "d_notify"
    \/ innerLive /\ ~innerLive'

C7_Terminal ==
    /\ ~active => ~active'
    /\ (~active /\ C7_Release) => UNCHANGED <<active, current_event, queue>>
    /\ (ret'.after /\ ret'.who = "r" /\ ret'.kind = "ok") =>
           (queue # <<>> /\ ret'.data = Head(queue).data)

C7_Closed == []C7_CallsAfterClose /\ [][C7_Terminal]_vars

\* a send that started on a closed channel has failed, after a second
\* handle was released
C7_Witness ==
    /\ ret.after
    /\ ret.op = "send"
    /\ ret.kind = "closed"
    /\ rpc = "dropped"
    /\ \E p \in Producers : ppc[p] = "dropped"

\* C8 - Drain after close: recv fails with ChannelClosed only when the ready
\* queue is empty and the Active Flag false; on a closed channel whose queue
\* is not empty recv returns the oldest queued payload, and nothing but a
\* successful recv / try_recv removes an Event from the queue.
C8_ClosedOnlyWhenDrained ==
    (ret.op = "recv" /\ ret.kind = "closed") => (queue = <<>> /\ ~active)

C8_Drain ==
    /\ (~active /\ queue # <<>> /\ rpc = "r_loop" /\ rpc' # rpc) =>
           /\ ret' = Return("r", "recv", "ok", Head(queue).data, rafter)
           /\ queue' = Tail(queue)
    /\ (queue' # queue /\ Len(queue') <= Len(queue)) =>
           /\ queue' = Tail(queue)
           /\ ret'.who = "r"
           /\ ret'.kind = "ok"

C8_DrainAfterClose == []C8_ClosedOnlyWhenDrained /\ [][C8_Drain]_vars

\* a recv that started after the close has returned a queued payload
C8_Witness ==
    /\ ~active
    /\ ret.op = "recv"
    /\ ret.kind = "ok"
    /\ ret.after

\* C9 - try_recv never waits and its result is decided by the state it
\* sees: its one step with the queue mutex returns; a non-empty queue gives
\* the oldest payload, an empty queue gives Empty if the Active Flag is true
\* and ChannelClosed if it is false, and both failures leave the ready queue,
\* the pending slot and the Active Flag unchanged.
C9_Result ==
    ret.op = "try_recv" =>
        /\ rpc = "idle"
        /\ ret.kind = "empty" => (queue = <<>> /\ active)
        /\ ret.kind = "closed" => (queue = <<>> /\ ~active)
        /\ ret.kind = "ok" => ret.data = received[Len(received)]

C9_Step ==
    (rpc = "t_body" /\ rpc' # rpc) =>
        /\ rpc' = "idle"
        /\ ret'.op = "try_recv"
        /\ queue # <<>> =>
               /\ ret'.kind = "ok"
               /\ ret'.data = Head(queue).data
               /\ queue' = Tail(queue)
        /\ (queue = <<>> /\ active) =>
               /\ ret'.kind = "empty"
               /\ UNCHANGED <<queue, current_event, active>>
        /\ (queue = <<>> /\ ~active) =>
               /\ ret'.kind = "closed"
               /\ UNCHANGED <<queue, current_event, active>>

C9_TryRecv == []C9_Result /\ [][C9_Step]_vars

\* try_recv has failed with ChannelClosed on a closed, drained channel that
\* still has an Event in its pending slot
C9_Witness ==
    /\ ret.op = "try_recv"
    /\ ret.kind = "closed"
    /\ current_event # <<>>

\* C10 - Close releases a blocked receiver: a recv that is waiting, or about
\* to wait, on a closed channel eventually returns (or an Event is queued).
C10_CloseReleasesRecv ==
    (rpc \in {"r_prewait", "r_waiting"} /\ ~active)
        ~> (~InRecv \/ queue # <<>>)

\* C11 - Closing by ownership: the Active Flag is false only once the last
\* Sender or the Receiver has been released; releasing one Sender while
\* another Sender and the Receiver are live leaves the channel open.
C11_ClosingByOwnership ==
    ~active =>
        \/ \A p \in Producers : ppc[p] \in {"none", "d_notify", "dropped"}
        \/ rpc \in {"d_notify", "dropped"}

\* C12 - Single representation: a payload is in at most one of the pending
\* slot, the scheduler's hand and the ready queue, at most once in the ready
\* queue, appended at most once and returned at most once, and a returned
\* payload is in none of the three.
QueueData == {queue[i].data : i \in 1..Len(queue)}

C13_NoAcceptanceAfterClose ==
    (ret.op \in {"send", "send_immediate"} /\ ret.kind = "ok") => active

\* C14 - Deadlock freedom of the lock discipline: never does a producer hold
\* the queue mutex and wait for the slot mutex while the scheduler holds the
\* slot mutex and waits for the queue mutex.
C14_NoLockCycle ==
    ~ /\ wpc = "w_push"
      /\ lockCE = "w"
      /\ \E p \in Producers : ppc[p] = "si_clear" /\ lockQ = p

\* C15 - Scheduler termination: once the Active Flag is false the scheduler
\* thread eventually leaves its loop.
C15_SchedulerTerminates == ~active ~> (wpc = "w_done")

\* C16 - No promotion on close: the scheduler step that observes the Active
\* Flag false leaves the loop without touching the slot or the queue; once
\* it has left, nothing is in its hand, the Event left in the slot has been
\* neither appended nor returned, no payload that went through the slot is
\* appended any more, and only appended payloads are returned.
SentData == {sendOrder[i].data : i \in 1..Len(sendOrder)}

C16_Discarded ==
    /\ ReceivedData \subseteq AppendedData
    /\ wpc = "w_done" =>
          /\ hand = <<>>
          /\ SlotData \cap (AppendedData \cup ReceivedData) = {}

C16_Exit ==
    (wpc = "w_active" /\ ~active /\ wpc' # wpc) =>
        /\ wpc' = "w_done"
        /\ UNCHANGED <<current_event, queue, hand, appended, received>>

C16_AfterExit ==
    wpc = "w_done" =>
        \A i \in 1..Len(appended') :
            i > Len(appended) => appended'[i].data \notin SentData

C16_NoPromotionOnClose ==
    []C16_Discarded /\ [][C16_Exit /\ C16_AfterExit]_vars

\* the scheduler has left its loop and a due Event is left in the slot
C16_Witness ==
    /\ wpc = "w_done"
    /\ current_event # <<>>
    /\ IsDue(current_event[1], now)

\* C17 - send is atomic and touches only the pending slot: the step of a
\* send that returns Ok replaces the slot by the one Event (payload,
\* now + Delay) and leaves the queue and the Active Flag alone; every other
\* step of a send, the one that fails included, leaves all three alone; and
\* while a send is between its lock and its return it owns the slot mutex
\* and no step of another thread changes the slot.
InSend(p) == ppc[p] \in {"s_check", "s_write"}

C17_Success(p) ==
    (ppc[p] = "s_write" /\ ppc'[p] # ppc[p]) =>
        /\ ppc'[p] = "idle"
        /\ ret' = Return(p, "send", "ok", nextId, pafter[p])
        /\ current_event' = <<Event(nextId, now + Delay)>>
        /\ UNCHANGED <<queue, active>>

C17_Failure(p) ==
    (ppc[p] = "s_check" /\ ppc'[p] = "idle") =>
        /\ ret'.op = "send"
        /\ ret'.kind = "closed"
        /\ UNCHANGED chan

C17_NoOtherEffect(p) ==
    (ppc'[p] \in {"s_check", "s_write"} /\ ppc'[p] # ppc[p]) => UNCHANGED chan

C17_Isolation(p) ==
    (InSend(p) /\ ppc'[p] = ppc[p]) => UNCHANGED current_event

C17_SendAtomic ==
    /\ [](\A p \in Producers : InSend(p) => lockCE = p)
    /\ [][\A p \in Producers :
            /\ C17_Success(p)
            /\ C17_Failure(p)
            /\ C17_NoOtherEffect(p)
            /\ C17_Isolation(p)]_vars

\* a send has just returned Ok while the ready queue holds an Event
C17_Witness ==
    /\ ret.op = "send"
    /\ ret.kind = "ok"
    /\ queue # <<>>
    /\ SlotData = {ret.data}

\* C18 - send_immediate wakes the consumer: when send_immediate has returned
\* Ok while the receiver is inside recv, that recv eventually returns, or
\* the channel is closed.
C18_SendImmediateWakes ==
    (/\ ret.op = "send_immediate"
     /\ ret.kind = "ok"
     /\ InRecv
     /\ active)
        ~> (~InRecv \/ ~active)

\* C19 - Polling debouncer in Monitor::delay_send: the loop holds at most
\* one received signal, the latest one, with its receipt time; a receipt
\* replaces the held signal and restarts the timer; a signal is forwarded
\* only when more than DebounceMillis have elapsed since the most recent
\* receipt, and forwarding empties the held slot; so of signals received at
\* most DebounceMillis apart only the last is forwarded, once, after the
\* burst has ended, and every burst that has ended has been forwarded.

\* signal i is the last of its burst, as far as the receipts so far tell
LastOfBurst(i) ==
    \/ i = Len(receipts)
    \/ Elapsed(receipts[i], receipts[i + 1]) > DebounceMillis

Forwarded == {forwards[k].e : k \in 1..Len(forwards)}

C19_Held ==
    /\ Len(last_time) <= 1
    /\ last_time # <<>> =>
          /\ last_time[1].e = Len(receipts)
          /\ last_time[1].at = receipts[Len(receipts)]
          /\ last_time[1].e \notin Forwarded

C19_Replace ==
    receipts' # receipts =>
        /\ receipts' = Append(receipts, mnow)
        /\ last_time' = <<[at |-> mnow, e |-> Len(receipts')]>>

C19_Forward ==
    forwards' # forwards =>
        /\ last_time # <<>>
        /\ Elapsed(last_time[1].at, mnow) > DebounceMillis
        /\ forwards' = Append(forwards, [e |-> last_time[1].e, at |-> mnow])
        /\ last_time' = <<>>

C19_Bursts ==
    /\ \A k \in 1..Len(forwards) :
          /\ LastOfBurst(forwards[k].e)
          /\ Elapsed(receipts[forwards[k].e], forwards[k].at) > DebounceMillis
          /\ forwards[k].e < Len(receipts) =>
                forwards[k].at <= receipts[forwards[k].e + 1]
          /\ \A j \in 1..Len(forwards) :
                j # k => forwards[j].e # forwards[k].e
    /\ \A i \in 1..Len(receipts) :
          (i < Len(receipts) /\ LastOfBurst(i)) => i \in Forwarded
    /\ (/\ receipts # <<>>
        /\ mpc = "m_try_recv"
        /\ Elapsed(receipts[Len(receipts)], mnow) > DebounceMillis)
          => Len(receipts) \in Forwarded

====
